---- MODULE Spec2Model ----
(***************************************************************************)
(* State-machine model of ArxivScraper (src/arxiv_crawler.py): the page    *)
(* fetcher with its retry loop, the result parser, the full crawl          *)
(* (fetch_all) with its concurrent page tasks, the incremental crawl       *)
(* (fetch_update) and the translation stage.  One scraper object and one   *)
(* paper database live across several crawl calls.  The date logic of the  *)
(* parser and parse_search_text are modelled on strings of characters and  *)
(* followed in specifications of their own.                                *)
(***************************************************************************)
EXTENDS Integers, Sequences, FiniteSets, TLC

(* ---------------------------------------------------------------------- *)
(* Program constants                                                       *)
(* ---------------------------------------------------------------------- *)
\* self.step = 50
Step == 50
\* while error <= 3
MaxRetry == 3
\* self.total = None (Python None, encoded as a number no header can yield)
None == -1

(* ---------------------------------------------------------------------- *)
(* Bounds of the model                                                     *)
(* ---------------------------------------------------------------------- *)
\* largest number of pages a result-count header can announce
MaxPages == 3
\* record identities (URLs) are 1..MaxUrl
MaxUrl == 2
\* largest number of result entries on one page
MaxRecs == 2
\* crawl calls made on the scraper object when it is reused
MaxRuns == 2
\* largest number of children of a tag handed to parse_search_text
MaxKids == 2

Urls == 1..MaxUrl

\* Result counts a header can announce: exactly one page, and one record
\* past a page boundary for 2..MaxPages pages.
Totals == {Step} \cup {k * Step + 1 : k \in 1..(MaxPages - 1)}

\* Sequences of distinct URLs of length at most MaxRecs.
RECURSIVE UrlSeqs(_)
UrlSeqs(n) ==
    IF n = 0 THEN {<< >>}
    ELSE LET shorter == UrlSeqs(n - 1)
         IN  shorter \cup {Append(s, u) : s \in {t \in shorter : Len(t) = n - 1},
                                          u \in Urls}

Range(s) == {s[i] : i \in 1..Len(s)}

PageUrls == {s \in UrlSeqs(MaxRecs) : Cardinality(Range(s)) = Len(s)}

\* A document served by the search endpoint: the result-count header
\* ("Sorry, your query returned no results" or "Showing ... of n results"),
\* the URLs of its result entries, and the position of the first entry whose
\* date text does not parse (0: every date parses).  Every document carries
\* one of the two headers.
Docs ==
    {[none |-> FALSE, sorry |-> TRUE, n |-> 0, urls |-> << >>, bad |-> 0]}
    \cup {[none |-> FALSE, sorry |-> FALSE, n |-> t, urls |-> us, bad |-> b] :
              t \in Totals, us \in PageUrls, b \in 0..MaxRecs}

ValidDocs == {d \in Docs : d.bad <= Len(d.urls)}

\* What request() hands back when it returns without a document (Python None).
NoneDoc == [none |-> TRUE, sorry |-> FALSE, n |-> 0, urls |-> << >>, bad |-> 0]

\* The count a document's header announces.
HeaderOf(doc) == IF doc.sorry THEN 0 ELSE doc.n

\* Paper(url=..., ...): a record, known by its URL.
Paper(u) == [url |-> u]

(* ---------------------------------------------------------------------- *)
(* Pure functions of the scraper                                           *)
(* ---------------------------------------------------------------------- *)
\* `not self.total`: None and 0 are both falsy.
Falsy(t) == t = None \/ t = 0

\* range(first, stop, Step) as the sequence Python iterates over.
RECURSIVE PyRange(_, _)
PyRange(first, stop) ==
    IF first >= stop THEN << >> ELSE <<first>> \o PyRange(first + Step, stop)

\* request() with a loop that starts its count over instead of giving up.
request_starts_over(error, ok, doc) ==
    IF ok THEN [error |-> error, ret |-> "doc", content |-> doc]
    ELSE [error |-> (error + 1) % (MaxRetry + 1), ret |-> "pending", content |-> NoneDoc]

\* request() with a loop that gives up one attempt early (while error < 3).
request_gives_up_early(error, ok, doc) ==
    IF ok THEN [error |-> error, ret |-> "doc", content |-> doc]
    ELSE IF error + 1 < MaxRetry
         THEN [error |-> error + 1, ret |-> "pending", content |-> NoneDoc]
         ELSE [error |-> error + 1, ret |-> "none", content |-> NoneDoc]

\* One attempt of request(start): `error` failures so far, `ok` tells whether
\* this attempt got the document `doc`.  A success returns it at once; a failure
\* adds one to error and the loop goes on while error <= 3, after which the
\* function falls off its end and returns None.
request(error, ok, doc) ==
    IF ok THEN [error |-> error, ret |-> "doc", content |-> doc]
    ELSE IF error + 1 <= MaxRetry
         THEN [error |-> error + 1, ret |-> "pending", content |-> NoneDoc]
         ELSE [error |-> error + 1, ret |-> "none", content |-> NoneDoc]

\* parse_search_html() that takes a missing document for a page without
\* result entries instead of raising.
parse_search_html_skips_none(t, ps, doc) ==
    LET readsHeader == Falsy(t) /\ ~doc.none
        early == readsHeader /\ doc.sorry
        newTotal == IF readsHeader THEN (IF doc.sorry THEN 0 ELSE doc.n) ELSE t
        kept == IF early THEN 0
                ELSE IF doc.bad = 0 THEN Len(doc.urls) ELSE doc.bad - 1
        recs == [i \in 1..kept |-> Paper(doc.urls[i])]
    IN  [total  |-> newTotal,
         papers |-> ps \o recs,
         page   |-> recs,
         sets   |-> IF readsHeader THEN 1 ELSE 0,
         raised |-> ~early /\ doc.bad # 0]

\* parse_search_html(content).  BeautifulSoup(None) raises a TypeError before
\* anything is read or written.  On a document the header is read only while
\* self.total is falsy; a "Sorry" header sets total to 0 and returns; the
\* result entries are appended one by one and an entry whose date does not
\* parse raises (strptime) after the entries before it were appended.
parse_search_html(t, ps, doc) ==
    IF doc.none
    THEN [total |-> t, papers |-> ps, page |-> << >>, sets |-> 0, raised |-> TRUE]
    ELSE
    LET readsHeader == Falsy(t)
        early == readsHeader /\ doc.sorry
        newTotal == IF readsHeader THEN (IF doc.sorry THEN 0 ELSE doc.n) ELSE t
        kept == IF early THEN 0
                ELSE IF doc.bad = 0 THEN Len(doc.urls) ELSE doc.bad - 1
        recs == [i \in 1..kept |-> Paper(doc.urls[i])]
    IN  [total  |-> newTotal,
         papers |-> ps \o recs,
         page   |-> recs,
         sets   |-> IF readsHeader THEN 1 ELSE 0,
         raised |-> ~early /\ doc.bad # 0]

\* PaperDatabase (paper.py): the store keeps the URLs it knows.
UrlsOf(batch) == {batch[i].url : i \in 1..Len(batch)}

\* add_papers(papers): unconditional insert.
add_papers(known, batch) == known \cup UrlsOf(batch)

\* update_papers(papers): upsert, and the continuation signal of the
\* incremental protocol.
update_papers(known, batch) ==
    [db |-> known \cup UrlsOf(batch),
     continue |-> batch # << >> /\ UrlsOf(batch) \cap known = {}]

\* update_and_clear_papers() that ignores the database's answer and always
\* reports "continue".
update_and_clear_papers_always_continues(known, ps) ==
    LET r == update_papers(known, ps)
    IN  [db |-> r.db, batch |-> ps, papers |-> << >>, continue |-> TRUE]

\* update_and_clear_papers() once translate() is over: the buffer goes to
\* update_papers, is replaced by an empty list, and the signal is returned.
update_and_clear_papers(known, ps) ==
    LET r == update_papers(known, ps)
    IN  [db |-> r.db, batch |-> ps, papers |-> << >>, continue |-> r.continue]

(* ---------------------------------------------------------------------- *)
(* Text functions: strings are sequences of characters                     *)
(* ---------------------------------------------------------------------- *)
Digits == <<"0", "1", "2", "3", "4", "5", "6", "7", "8", "9">>

IsDigit(c) == \E i \in 1..10 : Digits[i] = c

DigitVal(c) == (CHOOSE i \in 1..10 : Digits[i] = c) - 1

\* The month names %B knows, January first.
MonthNames == <<
    <<"J", "a", "n", "u", "a", "r", "y">>,
    <<"F", "e", "b", "r", "u", "a", "r", "y">>,
    <<"M", "a", "r", "c", "h">>,
    <<"A", "p", "r", "i", "l">>,
    <<"M", "a", "y">>,
    <<"J", "u", "n", "e">>,
    <<"J", "u", "l", "y">>,
    <<"A", "u", "g", "u", "s", "t">>,
    <<"S", "e", "p", "t", "e", "m", "b", "e", "r">>,
    <<"O", "c", "t", "o", "b", "e", "r">>,
    <<"N", "o", "v", "e", "m", "b", "e", "r">>,
    <<"D", "e", "c", "e", "m", "b", "e", "r">> >>

\* A Python index or slice bound i on a string of length n: negative counts
\* from the end, and the result is clamped to 0..n.
PyIndex(i, n) == IF i < 0 THEN (IF i + n < 0 THEN 0 ELSE i + n) ELSE IF i > n THEN n ELSE i

\* s[a:b]
PySlice(s, a, b) ==
    LET lo == PyIndex(a, Len(s))
        hi == PyIndex(b, Len(s))
    IN  IF lo >= hi THEN << >> ELSE SubSeq(s, lo + 1, hi)

\* s.find(sub, from): the lowest index at or after `from` where sub occurs,
\* or -1.  Indices count from 0.
PyFind(s, sub, from) ==
    LET lo == PyIndex(from, Len(s))
        hits == {i \in lo..(Len(s) - Len(sub)) : SubSeq(s, i + 1, i + Len(sub)) = sub}
    IN  IF hits = {} THEN -1 ELSE CHOOSE i \in hits : \A j \in hits : i <= j

\* sub in s
Contains(s, sub) == PyFind(s, sub, 0) # -1

\* The first position at or after p (counted from 1) that holds no space.
RECURSIVE SkipSpaces(_, _)
SkipSpaces(s, p) == IF p <= Len(s) /\ s[p] = " " THEN SkipSpaces(s, p + 1) ELSE p

\* datetime: the days of month m of year y.
DaysIn(m, y) ==
    IF m = 2 THEN (IF y % 4 = 0 /\ (y % 100 # 0 \/ y % 400 = 0) THEN 29 ELSE 28)
    ELSE IF m \in {4, 6, 9, 11} THEN 30 ELSE 31

\* What strptime yields when it raises ValueError.
NoDate == [ok |-> FALSE, y |-> 0, m |-> 0, d |-> 0]

\* datetime.strptime(date, "%d %B, %Y").  %d is one of 3[0-1], [1-2]\d,
\* 0[1-9], [1-9] or a space and [1-9]; the blank of the format is one space
\* or more; %B is a month name; %Y is four digits; nothing may follow; and
\* the day must exist in the month.
strptime(date) ==
    LET n == Len(date)
        lead == IF n >= 1 /\ date[1] = " " THEN 1 ELSE 0
        two == n >= lead + 2 /\ IsDigit(date[lead + 1]) /\ IsDigit(date[lead + 2])
        one == n >= lead + 1 /\ IsDigit(date[lead + 1])
        k == IF two THEN 2 ELSE IF one THEN 1 ELSE 0
        d == IF k = 2 THEN 10 * DigitVal(date[lead + 1]) + DigitVal(date[lead + 2])
             ELSE IF k = 1 THEN DigitVal(date[lead + 1]) ELSE 0
        dayOk == /\ d \in 1..31
                 /\ lead = 1 => k = 1
        p1 == lead + k + 1
        p2 == SkipSpaces(date, p1)
        ms == {i \in 1..12 : SubSeq(date, p2, p2 + Len(MonthNames[i]) - 1) = MonthNames[i]}
        m == IF ms = {} THEN 0 ELSE CHOOSE i \in ms : TRUE
        p3 == IF m = 0 THEN p2 ELSE p2 + Len(MonthNames[m])
        comma == p3 <= n /\ date[p3] = ","
        p4 == SkipSpaces(date, p3 + 1)
        yearOk == /\ p4 + 3 = n
                  /\ \A i \in p4..n : IsDigit(date[i])
        y == 1000 * DigitVal(date[p4]) + 100 * DigitVal(date[p4 + 1])
             + 10 * DigitVal(date[p4 + 2]) + DigitVal(date[p4 + 3])
    IN  IF /\ dayOk
           /\ p2 > p1
           /\ m # 0
           /\ comma
           /\ p4 > p3 + 1
           /\ yearOk
        THEN (IF y >= 1 /\ d <= DaysIn(m, y) THEN [ok |-> TRUE, y |-> y, m |-> m, d |-> d]
              ELSE NoDate)
        ELSE NoDate

\* The date logic of parse_search_html taking the text after "Submitted"
\* whether or not a v1 marker is there.
first_submitted_date_ignores_v1(text) ==
    LET submit_date == PyFind(text, <<"S", "u", "b", "m", "i", "t", "t", "e", "d">>, 0)
        date == PySlice(text, submit_date + 9, PyFind(text, <<";">>, submit_date))
    IN  strptime(date)

\* The date logic of parse_search_html on the text of the is-size-7 block:
\* with "v1" in the text, the slice from 12 characters past "v1submitted" to
\* the next semicolon; otherwise the slice from 9 characters past "Submitted"
\* to the next semicolon; the slice goes to strptime.
first_submitted_date(text) ==
    LET v1 == PyFind(text, <<"v", "1", "s", "u", "b", "m", "i", "t", "t", "e", "d">>, 0)
        submit_date == PyFind(text, <<"S", "u", "b", "m", "i", "t", "t", "e", "d">>, 0)
        date == IF Contains(text, <<"v", "1">>)
                THEN PySlice(text, v1 + 12, PyFind(text, <<";">>, v1))
                ELSE PySlice(text, submit_date + 9, PyFind(text, <<";">>, submit_date))
    IN  strptime(date)

\* Whitespace as \s matches it.
IsSpace(c) == c \in {" ", "\t", "\n"}

\* re.sub(r"\s+", " ", text): every run of whitespace becomes one blank.
RECURSIVE Collapse(_)
Collapse(text) ==
    IF text = << >> THEN << >>
    ELSE IF IsSpace(text[1])
         THEN (IF Len(text) >= 2 /\ IsSpace(text[2]) THEN Collapse(Tail(text))
               ELSE <<" ">> \o Collapse(Tail(text)))
         ELSE <<text[1]>> \o Collapse(Tail(text))

\* The children a tag can have.  A NavigableString; a Tag with its name, its
\* class attribute (or "absent"), its onclick attribute (or "absent"), and
\* its text.
NavigableString(text) == [isTag |-> FALSE, name |-> "", class |-> "", onclick |-> "", text |-> text]
Tag(name, class, onclick, text) ==
    [isTag |-> TRUE, name |-> name, class |-> class, onclick |-> onclick, text |-> text]

\* What one turn of the loop of parse_search_text leaves: the string, and
\* how the turn ended ("next", or "raised" with an exception).
\* `"search-hit" in child.get("class")` and `".style.display" in
\* child.get("onclick")` raise TypeError when the attribute is absent.  In
\* the else branch pdb.set_trace() stops in the debugger: dbg tells whether
\* the session resumes the program ("continue"), and the loop goes on with
\* the child left out, or quits it ("quit"), and BdbQuit is raised.
parse_search_text(string, child, dbg) ==
    IF ~child.isTag THEN [string |-> string \o Collapse(child.text), end |-> "next"]
    ELSE IF child.name = "span" /\ child.class = "absent" THEN [string |-> string, end |-> "raised"]
    ELSE IF child.name = "span" /\ child.class = "search-hit"
         THEN [string |-> string \o Collapse(child.text), end |-> "next"]
    ELSE IF child.name = "a" /\ child.onclick = "absent" THEN [string |-> string, end |-> "raised"]
    ELSE IF child.name = "a" /\ child.onclick = ".style.display" THEN [string |-> string, end |-> "next"]
    ELSE IF dbg = "continue" THEN [string |-> string, end |-> "next"]
    ELSE [string |-> string, end |-> "raised"]

(* ---------------------------------------------------------------------- *)
(* State                                                                   *)
(* ---------------------------------------------------------------------- *)
VARIABLES
    reuse,       \* the scenario explored, see Init
    trans_to,    \* self.trans_to as a truth value
    corpus,      \* the document the search endpoint serves at each offset, when that is fixed
    total,       \* self.total
    papers,      \* self.papers
    db,          \* URLs known to self.paper_db
    pc,          \* where the current crawl call stands
    mode,        \* "none", "all" (fetch_all) or "update" (fetch_update)
    outcome,     \* "none", "running", "done" or "aborted" (an exception left the call)
    run,         \* crawl calls started so far
    req,         \* request() calls in flight: offset -> error
    start,       \* loop variable of fetch_update
    pending,     \* translate(): indices of self.papers whose worker has not finished
    translated,  \* translate(): indices whose worker has finished its translation
    trFailed,    \* translate(): indices whose paper.translate raised, in the current crawl call
    \* history of the current crawl call
    reqLog,      \* offsets request() was called with, in call order
    parseLog,    \* parse_search_html calls: the offset, whether content was None, the records appended
    storeLog,    \* calls made to the paper database: operation and answer
    lastBatch,   \* the records handed over by the latest of these calls
    lastPage,    \* records appended by the latest parse_search_html call
    firstHeader, \* count announced by the header of this call's page 0
    totalSets,   \* assignments to self.total
    hdrDiff,     \* a page was parsed whose header count differs from self.total
    \* history of the scraper's fetch_all calls
    handed,      \* the set of records each completed fetch_all handed to add_papers
    \* history of one request() call followed on its own (SpecRequest)
    attemptLog,  \* what each attempt of the call met: a document, or NoneDoc for an exception
    result,      \* what the call returned
    \* one call of a pure function followed on its own
    dateCall,    \* the date text of a result entry and what the date logic makes of it
    textCall     \* parse_search_text: the tag, the position in its children, the string so far

vars == <<reuse, trans_to, total, papers, db, pc, mode, outcome, run, req, start, pending, translated,
          trFailed,
          reqLog, parseLog, storeLog, lastBatch, lastPage, firstHeader, totalSets, hdrDiff,
          attemptLog, result, corpus, handed, dateCall, textCall>>

config == <<reuse, trans_to, corpus>>
pure == <<dateCall, textCall>>
hist == <<reqLog, parseLog, storeLog, lastBatch, lastPage, firstHeader, totalSets, hdrDiff>>
callHist == <<attemptLog, result>>

\* request() has not returned yet.
Pending == [ret |-> "pending", content |-> NoneDoc]

NoReq == [o \in {} |-> 0]

\* The documents served change from one request to the next.
AnyCorpus == [o \in {} |-> NoneDoc]

\* Two scenarios are explored.  Reuse: a fresh database, the scraper object
\* serves MaxRuns crawl calls, pages carry fewer than MaxRecs entries.
\* Otherwise: any database, one crawl call, pages of up to MaxRecs entries.
\* Over an unchanged corpus one more crawl call is made, so that two calls can
\* complete after one that was aborted.
RunsAllowed == IF corpus # AnyCorpus THEN MaxRuns + 1 ELSE IF reuse THEN MaxRuns ELSE 1
PageLen == IF reuse THEN MaxRecs - 1 ELSE MaxRecs

\* No pure-function call is being followed.
NoCall == [fn |-> "none"]

\* __init__: total None, empty buffer, no crawl call made yet.
Constructed ==
    /\ total = None
    /\ papers = << >>
    /\ pc = "idle"
    /\ mode = "none"
    /\ outcome = "none"
    /\ run = 0
    /\ req = NoReq
    /\ start = 0
    /\ pending = {}
    /\ translated = {}
    /\ trFailed = {}
    /\ reqLog = << >>
    /\ parseLog = << >>
    /\ storeLog = << >>
    /\ lastBatch = << >>
    /\ lastPage = << >>
    /\ firstHeader = None
    /\ totalSets = 0
    /\ hdrDiff = FALSE
    /\ handed = << >>
    /\ attemptLog = << >>
    /\ result = Pending

\* __init__; the database is the one found on disk.
Init ==
    /\ reuse \in BOOLEAN
    /\ trans_to \in BOOLEAN
    /\ corpus = AnyCorpus
    /\ db \in IF reuse THEN {{}} ELSE SUBSET Urls
    /\ Constructed
    /\ dateCall = NoCall
    /\ textCall = NoCall

(* ---------------------------------------------------------------------- *)
(* Shared steps                                                            *)
(* ---------------------------------------------------------------------- *)
Responses(ok) == IF ok THEN {d \in ValidDocs : Len(d.urls) <= PageLen} ELSE {NoneDoc}

\* An exception leaves the crawl call (nothing in fetch_all or fetch_update
\* catches it); asyncio.run cancels the tasks still in flight.
Raise ==
    /\ pc' = "idle"
    /\ outcome' = "aborted"
    /\ req' = NoReq
    /\ pending' = {}
    /\ translated' = {}

\* The crawl call returns.
Return ==
    /\ pc' = "idle"
    /\ outcome' = "done"
    /\ req' = NoReq
    /\ pending' = {}
    /\ UNCHANGED translated

\* The effect of parse_search_html on the scraper, p its result for the
\* content of offset o.
Parsed(o, p, content) ==
    /\ total' = p.total
    /\ papers' = p.papers
    /\ parseLog' = Append(parseLog, [off |-> o, none |-> content.none, recs |-> p.page])
    /\ lastPage' = p.page
    /\ totalSets' = totalSets + p.sets
    /\ hdrDiff' = (hdrDiff \/ (~content.none /\ HeaderOf(content) # p.total))
    /\ firstHeader' = IF o # 0 THEN firstHeader
                      ELSE IF content.none THEN None ELSE HeaderOf(content)

\* A crawl call starts: the history is that of the new call.
Begin(m, first) ==
    /\ pc = "idle"
    /\ run < RunsAllowed
    /\ run' = run + 1
    /\ mode' = m
    /\ outcome' = "running"
    /\ pc' = first
    /\ req' = [o \in {0} |-> 0]
    /\ start' = 0
    /\ reqLog' = <<0>>
    /\ parseLog' = << >>
    /\ storeLog' = << >>
    /\ lastBatch' = << >>
    /\ lastPage' = << >>
    /\ firstHeader' = None
    /\ totalSets' = 0
    /\ hdrDiff' = FALSE
    /\ translated' = {}
    /\ trFailed' = {}
    /\ UNCHANGED <<config, callHist, pure, handed, total, papers, db, pending>>

\* request() counting its failures in one counter shared by the calls in flight.
Retry_shared_counter(o) ==
    /\ o \in DOMAIN req
    /\ LET r == request(req[o], FALSE, NoneDoc)
       IN  /\ r.ret = "pending"
           /\ req' = [x \in DOMAIN req |-> IF req[x] < MaxRetry THEN req[x] + 1 ELSE req[x]]
    /\ UNCHANGED <<config, callHist, pure, handed, trFailed, total, papers, db, pc, mode, outcome, run, start,
                   pending, translated, hist>>

\* request(): an attempt raises and the loop goes round again.
Retry(o) ==
    /\ o \in DOMAIN req
    /\ LET r == request(req[o], FALSE, NoneDoc)
       IN  /\ r.ret = "pending"
           /\ req' = [req EXCEPT ![o] = r.error]
    /\ UNCHANGED <<config, callHist, pure, handed, trFailed, total, papers, db, pc, mode, outcome, run, start,
                   pending, translated, hist>>

\* How one call of paper.translate can end: the translation is stored in the
\* record, or the translation service fails and the call raises.
TranslateOutcomes == {"translated", "raised"}

\* translate(): the worker of one record finishes, paper.translate has
\* stored the translation in the record.
WorkerDone(i) ==
    /\ "translated" \in TranslateOutcomes
    /\ pc \in {"all_translate", "upd_translate"}
    /\ i \in pending
    /\ pending' = pending \ {i}
    /\ translated' = translated \cup {i}
    /\ UNCHANGED <<config, callHist, pure, handed, trFailed, total, papers, db, pc, mode, outcome, run, req, start, hist>>

\* translate(): paper.translate raises in one worker; gather hands the
\* exception to translate(), which hands it to the crawl call.
WorkerRaises(i) ==
    /\ "raised" \in TranslateOutcomes
    /\ pc \in {"all_translate", "upd_translate"}
    /\ i \in pending
    /\ trFailed' = trFailed \cup {i}
    /\ Raise
    /\ UNCHANGED <<config, callHist, pure, handed, total, papers, db, mode, run, start, hist>>

(* ---------------------------------------------------------------------- *)
(* fetch_all                                                               *)
(* ---------------------------------------------------------------------- *)
StartFetchAll == Begin("all", "all_page0")

\* fetch_all handing over only the records the database does not hold yet.
AddPapers_only_new(ps) ==
    LET new == SelectSeq(ps, LAMBDA r : r.url \notin db)
    IN  /\ db' = add_papers(db, new)
        /\ storeLog' = Append(storeLog, [op |-> "add", continue |-> FALSE])
        /\ lastBatch' = new
        /\ handed' = Append(handed, Range(new))
        /\ Return

\* The tail of fetch_all once gather has returned: translate() when a target
\* language is set, then add_papers(self.papers).
AddPapers(ps) ==
    /\ db' = add_papers(db, ps)
    /\ storeLog' = Append(storeLog, [op |-> "add", continue |-> FALSE])
    /\ lastBatch' = ps
    /\ handed' = Append(handed, Range(ps))
    /\ Return

\* request(0) returns, page 0 is parsed, and one wrapper task per offset of
\* range(step, total, step) is started by gather.
FetchAllFirst(ok, doc) ==
    /\ pc = "all_page0"
    /\ LET r == request(req[0], ok, doc)
           p == parse_search_html(total, papers, r.content)
           offs == PyRange(Step, p.total)
       IN  /\ r.ret # "pending"
           /\ Parsed(0, p, r.content)
           /\ IF p.raised
              THEN /\ Raise
                   /\ UNCHANGED reqLog
              ELSE /\ pc' = "all_gather"
                   /\ req' = [o \in Range(offs) |-> 0]
                   /\ reqLog' = reqLog \o offs
                   /\ UNCHANGED <<outcome, pending, translated>>
    /\ UNCHANGED <<config, callHist, pure, handed, trFailed, db, mode, run, start, storeLog, lastBatch>>

\* wrapper(start): request(start) returns and the page is parsed.
Wrapper(o, ok, doc) ==
    /\ pc = "all_gather"
    /\ o \in DOMAIN req
    /\ LET r == request(req[o], ok, doc)
           p == parse_search_html(total, papers, r.content)
       IN  /\ r.ret # "pending"
           /\ Parsed(o, p, r.content)
           /\ IF p.raised
              THEN Raise
              ELSE /\ req' = [x \in DOMAIN req \ {o} |-> req[x]]
                   /\ UNCHANGED <<pc, outcome, pending, translated>>
    /\ UNCHANGED <<config, callHist, pure, handed, trFailed, db, mode, run, start, reqLog, storeLog, lastBatch>>

\* fetch_all going on as soon as one wrapper has finished (no fan-in barrier).
GatherDone_without_barrier ==
    /\ pc = "all_gather"
    /\ Len(parseLog) >= 2
    /\ IF trans_to
       THEN /\ pc' = "all_translate"
            /\ pending' = 1..Len(papers)
            /\ translated' = {}
            /\ req' = NoReq
            /\ UNCHANGED <<db, outcome, storeLog, lastBatch, handed>>
       ELSE AddPapers(papers)
    /\ UNCHANGED <<config, callHist, pure, trFailed, total, papers, mode, run, start,
                   reqLog, parseLog, lastPage, firstHeader, totalSets, hdrDiff>>

\* gather returns once every wrapper has finished.
GatherDone ==
    /\ pc = "all_gather"
    /\ DOMAIN req = {}
    /\ IF trans_to
       THEN /\ pc' = "all_translate"
            /\ pending' = 1..Len(papers)
            /\ translated' = {}
            /\ UNCHANGED <<db, outcome, req, storeLog, lastBatch, handed>>
       ELSE AddPapers(papers)
    /\ UNCHANGED <<config, callHist, pure, trFailed, total, papers, mode, run, start,
                   reqLog, parseLog, lastPage, firstHeader, totalSets, hdrDiff>>

\* translate() returns in fetch_all.
FetchAllTranslated ==
    /\ pc = "all_translate"
    /\ pending = {}
    /\ AddPapers(papers)
    /\ UNCHANGED <<config, callHist, pure, trFailed, total, papers, mode, run, start,
                   reqLog, parseLog, lastPage, firstHeader, totalSets, hdrDiff>>

(* ---------------------------------------------------------------------- *)
(* fetch_update                                                            *)
(* ---------------------------------------------------------------------- *)
StartFetchUpdate == Begin("update", "upd_fetch")

\* The loop of fetch_update without its `if not continue_update: break`.
Submit_without_break(ps, t) ==
    LET u == update_and_clear_papers(db, ps)
        nxt == start + Step
    IN  /\ db' = u.db
        /\ papers' = u.papers
        /\ storeLog' = Append(storeLog, [op |-> "update", continue |-> u.continue])
        /\ lastBatch' = u.batch
        /\ IF nxt < t
           THEN /\ pc' = "upd_fetch"
                /\ start' = nxt
                /\ req' = [o \in {nxt} |-> 0]
                /\ reqLog' = Append(reqLog, nxt)
                /\ pending' = {}
                /\ UNCHANGED <<outcome, translated>>
           ELSE /\ Return
                /\ UNCHANGED <<start, reqLog>>

\* update_and_clear_papers() after translation, then the loop of
\* fetch_update: the next offset of range(step, total, step) is requested
\* unless continue_update is false.
Submit(ps, t) ==
    LET u == update_and_clear_papers(db, ps)
        nxt == start + Step
    IN  /\ db' = u.db
        /\ papers' = u.papers
        /\ storeLog' = Append(storeLog, [op |-> "update", continue |-> u.continue])
        /\ lastBatch' = u.batch
        /\ IF nxt < t /\ u.continue
           THEN /\ pc' = "upd_fetch"
                /\ start' = nxt
                /\ req' = [o \in {nxt} |-> 0]
                /\ reqLog' = Append(reqLog, nxt)
                /\ pending' = {}
                /\ UNCHANGED <<outcome, translated>>
           ELSE /\ Return
                /\ UNCHANGED <<start, reqLog>>

\* request(start) returns in fetch_update and the page is parsed; without a
\* target language the batch is submitted in the same step.
FetchUpdatePage(ok, doc) ==
    /\ pc = "upd_fetch"
    /\ LET r == request(req[start], ok, doc)
           p == parse_search_html(total, papers, r.content)
       IN  /\ r.ret # "pending"
           /\ total' = p.total
           /\ parseLog' = Append(parseLog, [off |-> start, none |-> r.content.none, recs |-> p.page])
           /\ lastPage' = p.page
           /\ totalSets' = totalSets + p.sets
           /\ hdrDiff' = (hdrDiff \/ (~r.content.none /\ HeaderOf(r.content) # p.total))
           /\ firstHeader' = IF start # 0 THEN firstHeader
                             ELSE IF r.content.none THEN None ELSE HeaderOf(r.content)
           /\ IF p.raised
              THEN /\ Raise
                   /\ papers' = p.papers
                   /\ UNCHANGED <<db, start, reqLog, storeLog, lastBatch>>
              ELSE IF trans_to
              THEN /\ pc' = "upd_translate"
                   /\ papers' = p.papers
                   /\ pending' = 1..Len(p.papers)
                   /\ translated' = {}
                   /\ req' = NoReq
                   /\ UNCHANGED <<db, outcome, start, reqLog, storeLog, lastBatch>>
              ELSE Submit(p.papers, p.total)
    /\ UNCHANGED <<config, callHist, pure, handed, trFailed, mode, run>>

\* update_and_clear_papers() submitting without waiting for translate().
FetchUpdateTranslated_early ==
    /\ pc = "upd_translate"
    /\ Submit(papers, total)
    /\ UNCHANGED <<config, callHist, pure, handed, trFailed, total, mode, run,
                   parseLog, lastPage, firstHeader, totalSets, hdrDiff>>

\* translate() returns in update_and_clear_papers.
FetchUpdateTranslated ==
    /\ pc = "upd_translate"
    /\ pending = {}
    /\ Submit(papers, total)
    /\ UNCHANGED <<config, callHist, pure, handed, trFailed, total, mode, run,
                   parseLog, lastPage, firstHeader, totalSets, hdrDiff>>

(* ---------------------------------------------------------------------- *)
(* Specification                                                           *)
(* ---------------------------------------------------------------------- *)
Offsets == {k * Step : k \in 0..MaxPages}

Next ==
    \/ StartFetchAll
    \/ StartFetchUpdate
    \/ \E o \in Offsets : Retry(o)
    \/ \E ok \in BOOLEAN : \E doc \in Responses(ok) : FetchAllFirst(ok, doc)
    \/ \E o \in Offsets : \E ok \in BOOLEAN : \E doc \in Responses(ok) : Wrapper(o, ok, doc)
    \/ GatherDone
    \/ FetchAllTranslated
    \/ \E ok \in BOOLEAN : \E doc \in Responses(ok) : FetchUpdatePage(ok, doc)
    \/ FetchUpdateTranslated
    \/ \E i \in 1..Len(papers) : WorkerDone(i)
    \/ \E i \in 1..Len(papers) : WorkerRaises(i)

Spec == Init /\ [][Next]_vars

(* ---------------------------------------------------------------------- *)
(* One request() call on its own                                           *)
(* ---------------------------------------------------------------------- *)
\* request(s) has just been called on a new scraper, for any offset s.
InitRequest ==
    /\ reuse = FALSE
    /\ trans_to = FALSE
    /\ corpus = AnyCorpus
    /\ total = None
    /\ papers = << >>
    /\ db = {}
    /\ pc = "request"
    /\ mode = "none"
    /\ outcome = "none"
    /\ run = 0
    /\ \E s \in Offsets : /\ req = [o \in {s} |-> 0]
                          /\ start = s
    /\ pending = {}
    /\ translated = {}
    /\ trFailed = {}
    /\ reqLog = << >>
    /\ parseLog = << >>
    /\ storeLog = << >>
    /\ lastBatch = << >>
    /\ lastPage = << >>
    /\ firstHeader = None
    /\ totalSets = 0
    /\ hdrDiff = FALSE
    /\ handed = << >>
    /\ attemptLog = << >>
    /\ result = Pending
    /\ dateCall = NoCall
    /\ textCall = NoCall

\* One turn of the loop of request(): the attempt either yields a document,
\* which is returned, or raises; the call is over once it has returned.
Attempt(ok, doc) ==
    /\ pc = "request"
    /\ result.ret = "pending"
    /\ LET r == request(req[start], ok, doc)
       IN  /\ req' = [req EXCEPT ![start] = r.error]
           /\ attemptLog' = Append(attemptLog, doc)
           /\ result' = [ret |-> r.ret, content |-> r.content]
    /\ UNCHANGED <<config, total, papers, db, pc, mode, outcome, run, start,
                   pending, translated, trFailed, hist, pure, handed>>

NextRequest == \E ok \in BOOLEAN : \E doc \in Responses(ok) : Attempt(ok, doc)

SpecRequest == InitRequest /\ [][NextRequest]_vars

(* ---------------------------------------------------------------------- *)
(* The date logic on its own                                               *)
(* ---------------------------------------------------------------------- *)
\* n written in decimal.
RECURSIVE NumText(_)
NumText(n) == IF n < 10 THEN <<Digits[n + 1]>> ELSE NumText(n \div 10) \o <<Digits[(n % 10) + 1]>>

\* A date as arXiv prints it: "25 April, 1986".
DateText(dt) == NumText(dt.d) \o <<" ">> \o MonthNames[dt.m] \o <<",", " ">> \o NumText(dt.y)

\* Dates a result entry can carry; the last one is no day of the calendar.
DateInputs ==
    {[y |-> 1986, m |-> 4, d |-> 25], [y |-> 2024, m |-> 8, d |-> 8],
     [y |-> 2024, m |-> 8, d |-> 9], [y |-> 2024, m |-> 4, d |-> 31]}

\* The shapes of the text of the is-size-7 block: a date d0 that may follow
\* "Submitted" (with or without a blank), then, when the entry has a v1
\* marker, "v1submitted" and the date d1, then the announcement; the parts end
\* in a semicolon that a blank may follow.
DateShapes ==
    {[pre |-> p, d0 |-> a, v1 |-> v, d1 |-> b, sep |-> sp] :
        p \in {<< >>, <<"S", "u", "b", "m", "i", "t", "t", "e", "d">>, <<"S", "u", "b", "m", "i", "t", "t", "e", "d", " ">>},
        a \in DateInputs, v \in BOOLEAN, b \in DateInputs,
        sp \in {<<";">>, <<";", " ">>}}

DateTextOf(sh) ==
    sh.pre \o DateText(sh.d0) \o sh.sep
    \o (IF sh.v1 THEN <<"v", "1", "s", "u", "b", "m", "i", "t", "t", "e", "d", " ">> \o DateText(sh.d1) \o sh.sep ELSE << >>)
    \o <<"o", "r", "i", "g", "i", "n", "a", "l", "l", "y", " ", "a", "n", "n", "o", "u", "n", "c", "e", "d", " ", "A", "u", "g", "u", "s", "t", " ", "2", "0", "2", "4", ".">>

\* parse_search_html has read the date text of one result entry.
InitDate ==
    /\ reuse = FALSE
    /\ trans_to = FALSE
    /\ corpus = AnyCorpus
    /\ db = {}
    /\ Constructed
    /\ textCall = NoCall
    /\ \E sh \in {x \in DateShapes : x.v1 \/ x.d1 = x.d0} :
          dateCall = [fn |-> "date", shape |-> sh, text |-> DateTextOf(sh),
                      state |-> "called", date |-> NoDate]

\* The date logic runs: a date comes out, or strptime raises ValueError.
FirstSubmittedDate ==
    /\ dateCall.fn = "date"
    /\ dateCall.state = "called"
    /\ LET r == first_submitted_date(dateCall.text)
       IN  dateCall' = [dateCall EXCEPT !.state = IF r.ok THEN "returned" ELSE "raised",
                                        !.date = r]
    /\ UNCHANGED <<config, callHist, handed, trFailed, total, papers, db, pc, mode, outcome,
                   run, req, start, pending, translated, hist, textCall>>

NextDate == FirstSubmittedDate

SpecDate == InitDate /\ [][NextDate]_vars

(* ---------------------------------------------------------------------- *)
(* parse_search_text on its own                                            *)
(* ---------------------------------------------------------------------- *)
\* Children of a title or abstract tag: strings, the search-hit span, the
\* "show less" link, and tags that are neither.
Children ==
    {NavigableString(t) : t \in {<<"a">>, <<"a", " ", "\n", "b">>, <<"\n", " ">>}}
    \cup {Tag("span", "search-hit", "absent", <<"h", " ", " ", "i">>),
          Tag("a", "absent", ".style.display", <<"l", "e", "s", "s">>),
          Tag("span", "mathjax", "absent", <<"x">>),
          Tag("span", "absent", "absent", <<"x">>),
          Tag("a", "absent", "other", <<"x">>),
          Tag("a", "absent", "absent", <<"x">>),
          Tag("i", "absent", "absent", <<"x">>)}

RECURSIVE ChildSeqs(_)
ChildSeqs(n) ==
    IF n = 0 THEN {<< >>}
    ELSE LET shorter == ChildSeqs(n - 1)
         IN  shorter \cup {Append(cs, c) : cs \in {t \in shorter : Len(t) = n - 1},
                                           c \in Children}

\* A child that is a Tag, but neither the search-hit span nor the "show
\* less" link.
Unexpected(child) ==
    /\ child.isTag
    /\ ~(child.name = "span" /\ child.class = "search-hit")
    /\ ~(child.name = "a" /\ child.onclick = ".style.display")

\* parse_search_text(tag) has just been called: string = "".
InitText ==
    /\ reuse = FALSE
    /\ trans_to = FALSE
    /\ corpus = AnyCorpus
    /\ db = {}
    /\ Constructed
    /\ dateCall = NoCall
    /\ \E cs \in ChildSeqs(MaxKids) :
          textCall = [fn |-> "text", children |-> cs, pos |-> 0, string |-> << >>,
                      state |-> "running"]

\* One turn of `for child in tag.children`.
ParseSearchTextChild(dbg) ==
    /\ textCall.fn = "text"
    /\ textCall.state = "running"
    /\ textCall.pos < Len(textCall.children)
    /\ LET r == parse_search_text(textCall.string, textCall.children[textCall.pos + 1], dbg)
       IN  textCall' = [textCall EXCEPT !.pos = textCall.pos + 1,
                                        !.string = r.string,
                                        !.state = IF r.end = "raised" THEN "raised" ELSE "running"]
    /\ UNCHANGED <<config, callHist, handed, trFailed, total, papers, db, pc, mode, outcome,
                   run, req, start, pending, translated, hist, dateCall>>

\* `return string`
ParseSearchTextReturn ==
    /\ textCall.fn = "text"
    /\ textCall.state = "running"
    /\ textCall.pos = Len(textCall.children)
    /\ textCall' = [textCall EXCEPT !.state = "returned"]
    /\ UNCHANGED <<config, callHist, handed, trFailed, total, papers, db, pc, mode, outcome,
                   run, req, start, pending, translated, hist, dateCall>>

NextText ==
    \/ \E dbg \in {"continue", "quit"} : ParseSearchTextChild(dbg)
    \/ ParseSearchTextReturn

SpecText == InitText /\ [][NextText]_vars

(* ---------------------------------------------------------------------- *)
(* Incremental crawls whose calls all return                               *)
(* ---------------------------------------------------------------------- *)
\* A step of a fetch_update call under way: an attempt of request() ends, a
\* translation worker ends, the database answers.
UpdateStep ==
    \/ \E o \in Offsets : Retry(o)
    \/ \E ok \in BOOLEAN : \E doc \in Responses(ok) : FetchUpdatePage(ok, doc)
    \/ FetchUpdateTranslated
    \/ \E i \in 1..Len(papers) : WorkerDone(i)
    \/ \E i \in 1..Len(papers) : WorkerRaises(i)

NextUpdate == StartFetchUpdate \/ UpdateStep

\* fetch_update calls only; no attempt, worker or database call hangs for
\* ever, so a call under way always takes its next step.
SpecUpdate == Init /\ [][NextUpdate]_vars /\ WF_vars(UpdateStep)

(* ---------------------------------------------------------------------- *)
(* Full crawls of an unchanged corpus                                      *)
(* ---------------------------------------------------------------------- *)
\* The offsets at which a query of up to MaxPages pages has a page.
PageOffsets == {k * Step : k \in 0..(MaxPages - 1)}

\* An unchanged corpus serves the same document whenever an offset is
\* requested: the query has no result and every page is the "Sorry" page,
\* or every page announces the same count n and the pages past it are empty.
Corpora ==
    {[o \in PageOffsets |-> CHOOSE d \in ValidDocs : d.sorry]}
    \cup UNION {{c \in [PageOffsets -> {d \in ValidDocs : /\ ~d.sorry
                                                          /\ d.n = t
                                                          /\ Len(d.urls) < MaxRecs}] :
                    \A o \in PageOffsets : o >= t => c[o].urls = << >>} : t \in Totals}

\* What request(o) can meet: the document of the corpus, or an exception.
Served(o, ok) == IF ok THEN {corpus[o]} ELSE {NoneDoc}

\* Any number of full crawls of one corpus, by one scraper object and one
\* database.
InitIdem ==
    /\ reuse = TRUE
    /\ trans_to \in BOOLEAN
    /\ corpus \in Corpora
    /\ db = {}
    /\ Constructed
    /\ dateCall = NoCall
    /\ textCall = NoCall

\* ArxivScraper(...) is constructed anew for the next crawl call, over the
\* same database.
NewScraper ==
    /\ pc = "idle"
    /\ run > 0
    /\ total' = None
    /\ papers' = << >>
    /\ UNCHANGED <<config, callHist, pure, handed, trFailed, db, pc, mode, outcome, run, req, start,
                   pending, translated, hist>>

NextIdem ==
    \/ StartFetchAll
    \/ NewScraper
    \/ \E o \in PageOffsets : Retry(o)
    \/ \E ok \in BOOLEAN : \E doc \in Served(0, ok) : FetchAllFirst(ok, doc)
    \/ \E o \in PageOffsets : \E ok \in BOOLEAN : \E doc \in Served(o, ok) : Wrapper(o, ok, doc)
    \/ GatherDone
    \/ FetchAllTranslated
    \/ \E i \in 1..Len(papers) : WorkerDone(i)
    \/ \E i \in 1..Len(papers) : WorkerRaises(i)

SpecIdem == InitIdem /\ [][NextIdem]_vars

(* ---------------------------------------------------------------------- *)
(* Properties                                                              *)
(* ---------------------------------------------------------------------- *)
\* C1: in fetch_update the offsets requested are 0, step, 2*step, ... in that
\* order, at most one request is in flight, the latest; a page is requested
\* only once the batch of every page before it has been submitted and answered
\* "continue"; and after an answer "stop" nothing more is requested, parsed
\* or submitted in that call.
C1_Sequential ==
    mode = "update" =>
        /\ \A i \in 1..Len(reqLog) : reqLog[i] = (i - 1) * Step
        /\ DOMAIN req \subseteq {reqLog[Len(reqLog)]}
        /\ Len(reqLog) <= Len(storeLog) + 1
        /\ Len(parseLog) <= Len(reqLog)
        /\ Len(storeLog) <= Len(parseLog)
        /\ \A i \in 1..Len(parseLog) : parseLog[i].off = reqLog[i]
        /\ \A i \in 1..Len(storeLog) :
              /\ storeLog[i].op = "update"
              /\ i < Len(reqLog) => storeLog[i].continue
              /\ ~storeLog[i].continue =>
                    Len(reqLog) = i /\ Len(parseLog) = i /\ Len(storeLog) = i

\* fetch_update returned after the second page was answered "stop" although
\* the header announced a third page.
C1_Witness ==
    /\ mode = "update"
    /\ outcome = "done"
    /\ total > 2 * Step
    /\ reqLog = <<0, Step>>
    /\ Len(storeLog) = 2
    /\ storeLog[1].continue
    /\ ~storeLog[2].continue

Failed(i) == attemptLog[i].none

\* C2: a request() call makes at most 4 attempts; every attempt before the
\* last one raised; when it returns a document, that is the document of its
\* last attempt, the first one that did not raise; it returns None exactly
\* after 4 attempts that all raised, and has returned by then.
C2_RequestAttempts ==
    LET n == Len(attemptLog)
    IN  /\ n <= 4
        /\ \A i \in 1..(n - 1) : Failed(i)
        /\ result.ret = "doc" => n >= 1 /\ ~Failed(n) /\ result.content = attemptLog[n]
        /\ result.ret = "none" => n = 4 /\ Failed(n) /\ result.content = NoneDoc
        /\ result.ret = "pending" => n < 4 /\ (n > 0 => Failed(n))

\* Three attempts raised and the fourth one brought the document back.
C2_Witness ==
    /\ pc = "request"
    /\ Len(attemptLog) = 4
    /\ result.ret = "doc"
    /\ result.content = attemptLog[4]

\* C3 as claimed: parse_search_html is never called for a page whose
\* request() returned no document.
C3_ParserNotInvoked ==
    \A i \in 1..Len(parseLog) : ~parseLog[i].none

\* C4: in fetch_all, once request() has returned no document for a page the
\* call is over with an exception and add_papers has not been called; a
\* fetch_all that returns has parsed a document for every offset it requested.
C4_FailedPageAborts ==
    mode = "all" =>
        /\ (\E i \in 1..Len(parseLog) : parseLog[i].none) =>
              /\ outcome = "aborted"
              /\ pc = "idle"
              /\ req = NoReq
              /\ storeLog = << >>
        /\ outcome = "done" =>
              \A o \in Range(reqLog) :
                  \E i \in 1..Len(parseLog) : parseLog[i].off = o /\ ~parseLog[i].none

\* fetch_all was aborted by the failed fetch of a page other than page 0,
\* after the page of a higher offset had already been parsed.
C4_Witness ==
    /\ mode = "all"
    /\ outcome = "aborted"
    /\ Len(parseLog) = 3
    /\ parseLog[3].none
    /\ parseLog[3].off # 0
    /\ parseLog[2].off > parseLog[3].off
    /\ storeLog = << >>

C6_BatchIsPage ==
    (mode = "update" /\ storeLog # << >> /\ Len(storeLog) = Len(parseLog)) =>
        /\ lastBatch = lastPage
        /\ papers = << >>

\* C7 as claimed: in a fetch_all whose page 0 announced T > 0 results and was
\* parsed, the offsets requested are the multiples of step below T, each once.
C7_OffsetsRequested ==
    (/\ mode = "all"
     /\ firstHeader > 0
     /\ pc # "all_page0"
     /\ ~(outcome = "aborted" /\ Len(parseLog) = 1)) =>
        /\ Range(reqLog) = {o \in Offsets : o < firstHeader}
        /\ \A i, j \in 1..Len(reqLog) : reqLog[i] = reqLog[j] => i = j
        /\ \A i \in 1..Len(reqLog) : reqLog[i] >= 0 /\ reqLog[i] % Step = 0

\* Every offset fetch_all requested has been parsed from a document.
AllPagesParsed ==
    /\ req = NoReq
    /\ \A o \in Range(reqLog) :
          \E i \in 1..Len(parseLog) : parseLog[i].off = o /\ ~parseLog[i].none

\* C8: a fetch_all that returns has called add_papers exactly once; the call
\* happens when every page task has finished and, with a target language,
\* every record of the buffer has been translated; it hands over the whole
\* buffer; and the database does not change in a step that makes no such call.
C8_SingleHandoff ==
    /\ [](mode = "all" =>
            /\ Len(storeLog) <= 1
            /\ outcome = "done" => Len(storeLog) = 1
            /\ storeLog # << >> =>
                  /\ storeLog[1].op = "add"
                  /\ outcome = "done"
                  /\ AllPagesParsed
                  /\ trans_to => translated = 1..Len(papers)
                  /\ lastBatch = papers)
    /\ [][(mode' = "all" /\ run' = run /\ storeLog' = storeLog) => db' = db]_vars

\* A fetch_all over three pages with translation returned and handed over at
\* least two records.
C8_Witness ==
    /\ mode = "all"
    /\ outcome = "done"
    /\ trans_to
    /\ Len(reqLog) = 3
    /\ Len(storeLog) = 1
    /\ Len(lastBatch) >= 2
    /\ translated = 1..Len(lastBatch)

\* C9 as claimed: when fetch_all has returned, the buffer is empty.
C9_BufferCleared ==
    (mode = "all" /\ outcome = "done") => papers = << >>

\* C10 as claimed: once the first page of a crawl call has been parsed, total
\* has been set exactly once in that call, to the count of that page's header.
C10_TotalSetOnce ==
    (run > 0 /\ parseLog # << >> /\ ~parseLog[1].none) =>
        /\ totalSets = 1
        /\ total = firstHeader

\* The first page of the current crawl call has been parsed from a document.
FirstPageParsed == parseLog # << >> /\ ~parseLog[1].none

\* C11 as claimed: when the first page of a crawl call carries the "Sorry"
\* header, total is 0, no record is in the buffer, no further page is
\* requested or parsed, the call does not raise, and what it hands to the
\* database is one empty batch, answered "stop" in fetch_update.
C11_EmptyRun ==
    (FirstPageParsed /\ firstHeader = 0) =>
        /\ total = 0
        /\ papers = << >>
        /\ reqLog = <<0>>
        /\ Len(parseLog) = 1
        /\ outcome # "aborted"
        /\ outcome = "done" =>
              /\ Len(storeLog) = 1
              /\ lastBatch = << >>
              /\ mode = "update" => ~storeLog[1].continue

\* C12 as claimed: when paper.translate fails for a record, the crawl call is
\* not aborted, and when the call is over the database has been handed a
\* buffer that still holds the record.
C12_FailureTolerated ==
    trFailed # {} =>
        /\ outcome # "aborted"
        /\ outcome = "done" =>
              /\ storeLog # << >>
              /\ trFailed \subseteq 1..Len(lastBatch)

\* The date logic has run on a text that carries a v1 marker.
DateCallOver == dateCall.fn = "date" /\ dateCall.state # "called" /\ dateCall.shape.v1

\* A date of the calendar, as strptime yields it.
DateValue(dt) == [ok |-> TRUE, y |-> dt.y, m |-> dt.m, d |-> dt.d]

\* C13 as claimed: from a text "<D0>; v1submitted <D1>; originally announced
\* ..." the date logic yields D0, the date in front of the v1 marker.
C13_DateBeforeMarker ==
    (DateCallOver /\ dateCall.state = "returned") => dateCall.date = DateValue(dateCall.shape.d0)

\* C13, amended: from a text "<D0>; v1submitted <D1>; originally announced
\* ..." the date logic yields D1, the date that follows the v1submitted
\* marker, and raises when D1 is no day of the calendar.
C13_DateAfterMarker ==
    DateCallOver =>
        IF dateCall.shape.d1.d <= DaysIn(dateCall.shape.d1.m, dateCall.shape.d1.y)
        THEN dateCall.state = "returned" /\ dateCall.date = DateValue(dateCall.shape.d1)
        ELSE dateCall.state = "raised"

\* The text "25 April, 1986; v1submitted 8 August, 2024; originally announced
\* August 2024." has been through the date logic, which returned 2024-08-08.
C13_Witness ==
    /\ DateCallOver
    /\ dateCall.state = "returned"
    /\ dateCall.shape.pre = << >>
    /\ dateCall.shape.sep = <<";", " ">>
    /\ dateCall.shape.d0 = [y |-> 1986, m |-> 4, d |-> 25]
    /\ dateCall.date = [ok |-> TRUE, y |-> 2024, m |-> 8, d |-> 8]

\* C14: all the fetch_all calls that complete over one unchanged corpus hand
\* add_papers the same set of records, whether the scraper object is the
\* same or a new one, in whatever order the page tasks complete.
C14_SameRecordSet ==
    \A i, j \in 1..Len(handed) : handed[i] = handed[j]

\* After an aborted call, two full crawls of a corpus of MaxPages pages
\* completed on the same scraper object, the second handing over the records
\* of the first once more.
C14_Witness ==
    /\ Len(handed) = 2
    /\ run = MaxRuns + 1
    /\ handed[1] # {}
    /\ Len(parseLog) = MaxPages
    /\ Len(lastBatch) > Cardinality(handed[2])

\* C15 as claimed: once a crawl call has parsed its page 0, self.total is the
\* count announced by that page's header, and no offset at or beyond that
\* count is requested.
C15_TotalFromOwnFirstPage ==
    FirstPageParsed =>
        /\ total = firstHeader
        /\ \A i \in 1..Len(reqLog) : reqLog[i] = 0 \/ reqLog[i] < firstHeader

\* C16: with a target language, fetch_update submits a batch only when
\* translate() is over and the worker of every record of the buffer has
\* finished, and the batch is that buffer; without a target language no
\* translation worker ever runs.
C16_TranslateBeforeSubmit ==
    /\ [][(mode' = "update" /\ trans_to /\ Len(storeLog') = Len(storeLog) + 1) =>
            /\ pc = "upd_translate"
            /\ pending = {}
            /\ translated = 1..Len(papers)
            /\ lastBatch' = papers]_vars
    /\ [](~trans_to =>
            /\ pending = {}
            /\ translated = {}
            /\ pc \notin {"all_translate", "upd_translate"})

\* fetch_update with a target language submitted a translated batch of one
\* record or more and went on to the next page.
C16_Witness ==
    /\ mode = "update"
    /\ trans_to
    /\ Len(storeLog) = 1
    /\ storeLog[1].continue
    /\ Len(lastBatch) >= 1
    /\ translated = 1..Len(lastBatch)
    /\ pc = "upd_fetch"

\* C17 as claimed: when parse_search_text has gone past a child that is a
\* Tag but neither the search-hit span nor the "show less" link, it has
\* raised; it does not go on, and it does not return a string.
C17_UnexpectedRaises ==
    textCall.fn = "text" =>
        \A i \in 1..textCall.pos :
            Unexpected(textCall.children[i]) => textCall.state = "raised"

\* The records the parse_search_html calls of a log appended, call after call.
RECURSIVE RecordsOf(_)
RecordsOf(log) == IF log = << >> THEN << >> ELSE log[1].recs \o RecordsOf(Tail(log))

\* C18 as claimed: the buffer a fetch_all hands to add_papers is made of the
\* records of the pages that call parsed, the records of each page once and
\* in one piece, in the order its page tasks completed.
C18_BufferIsPages ==
    (mode = "all" /\ outcome = "done") => lastBatch = RecordsOf(parseLog)

\* C19: a failed attempt changes the failure count of its own request() call
\* only, by one; and request() returns None for an offset only when that
\* offset's own count stood at 3, whatever the other calls in flight did.
C19_OwnBudget ==
    /\ [](\A o \in DOMAIN req : req[o] \in 0..MaxRetry)
    /\ [][LET both == DOMAIN req \cap DOMAIN req'
              changed == {o \in both : req'[o] # req[o]}
              n == Len(parseLog')
          IN  /\ Cardinality(changed) <= 1
              /\ \A o \in changed : req'[o] = req[o] + 1
              /\ (n = Len(parseLog) + 1 /\ parseLog'[n].none) =>
                    /\ parseLog'[n].off \in DOMAIN req
                    /\ req[parseLog'[n].off] = MaxRetry]_vars

\* Two page tasks in flight: every retry of one is used up, none of the other.
C19_Witness ==
    /\ pc = "all_gather"
    /\ DOMAIN req = {Step, 2 * Step}
    /\ req[Step] = MaxRetry
    /\ req[2 * Step] = 0

\* ceil(t / step) for a total t; None and 0 give 0.
PagesOf(t) == IF t <= 0 THEN 0 ELSE (t + Step - 1) \div Step

\* C20 as claimed: a fetch_update under way reaches completion or abort, and
\* by then it has made at most ceil(total / step) request() calls, none of
\* them with more than 4 attempts.
C20_Terminates ==
    /\ [](\A o \in DOMAIN req : req[o] <= MaxRetry)
    /\ []((mode = "update" /\ outcome \in {"done", "aborted"}) =>
             Len(reqLog) <= PagesOf(total))
    /\ (mode = "update" /\ outcome = "running") ~> (outcome \in {"done", "aborted"})

\* C20, amended: a fetch_update under way reaches completion or abort, and
\* it never makes more request() calls than ceil(total / step), or one when
\* total is 0 or still None, none of them with more than 4 attempts.
C20_TerminatesAmended ==
    /\ [](\A o \in DOMAIN req : req[o] <= MaxRetry)
    /\ [](mode = "update" =>
             Len(reqLog) <= (IF PagesOf(total) = 0 THEN 1 ELSE PagesOf(total)))
    /\ (mode = "update" /\ outcome = "running") ~> (outcome \in {"done", "aborted"})

\* A fetch_update went through every page of a query of MaxPages pages and
\* returned.
C20_Witness ==
    /\ mode = "update"
    /\ outcome = "done"
    /\ Len(reqLog) = MaxPages
    /\ Len(storeLog) = MaxPages

====
